---- MODULE Spec2Model ----
(***************************************************************************)
(* Model of the threaded download engine of vymanga-downloader             *)
(* (src/downloader.py, src/models.py, src/scraper.py) and of the front     *)
(* ends that drive it (src/main.py, src/cli.py, src/gui_workers.py).       *)
(*                                                                         *)
(* Spec      : MangaDownloader -- download_manga, _download_chapter, the   *)
(*             two ThreadPoolExecutor pools, the progress object, the      *)
(*             observers and the pause/resume/stop controls.  A page fetch *)
(*             is a pool task that settles with the boolean returned by    *)
(*             DownloadWorker.download_file.                               *)
(* FairSpec  : Spec with the threads of a run in flight scheduled fairly. *)
(* SpecFetch : DownloadWorker.download_file -- the retry loop of one       *)
(*             fetch, attempt by attempt.                                  *)
(* SpecNotify: add_progress_callback and _notify_progress -- one           *)
(*             notification, observer by observer.                         *)
(* SpecReenter: SpecNotify with observers that call back into the          *)
(*             downloader while they are being notified.                   *)
(* SpecFolders: the chapter numbers built by _scrape_chapter_list and the  *)
(*             folder name chapter_folder_name gives to each.              *)
(* SpecPaths : scrape_chapter_pages filling the page list of one chapter,  *)
(*             and the file path download_manga and _download_chapter give *)
(*             to each page.                                               *)
(* SpecDiscover: scrape_selected_chapters -- the discovery pool, task by   *)
(*             task.                                                       *)
(* SpecFlow  : the four front ends (quick, interactive CLI, argument CLI,  *)
(*             GUI worker) from their selected chapters to the call of     *)
(*             download_manga.                                             *)
(* SpecRange : download_chapter_range and Manga.get_chapters_in_range.     *)
(*                                                                         *)
(* A block of code that runs under "with self._lock" is one action.  The   *)
(* unlocked writes of download_manga (lines 154, 155, 156, 182) are        *)
(* separate actions, so that other threads can run between them.  A        *)
(* control (pause, resume, stop) is one action, taken at any time.  Every  *)
(* call of download_manga gets a series of newly built objects.            *)
(***************************************************************************)
EXTENDS Integers, Sequences, FiniteSets, TLC

\* ---- bounds of the model ----
MaxChapters == 2    \* chapters of a submitted series: 0..MaxChapters
MaxPages == 2       \* pages of a chapter: 0..MaxPages
MaxWorkers == 2     \* max_workers of the downloader: 1..MaxWorkers
MaxRuns == 2        \* calls of download_manga on one instance
MaxRetries == 3     \* max_retries of a DownloadWorker: 0..MaxRetries
MaxObservers == 3   \* registered progress callbacks: 0..MaxObservers
MaxLinks == 3       \* chapter links of a scraped chapter list: 0..MaxLinks
MaxHalves == 4      \* chapter numbers parsed from link ids: 0, 0.5, .. 2.0
MaxImages == 2      \* img elements of a remote chapter page: 0..MaxImages
MaxUrls == 2        \* distinct image urls: 1..MaxUrls
MaxScrapes == 2     \* runs of scrape_chapter_pages on one chapter

VARIABLES
    \* MangaDownloader
    max_workers,        \* self.max_workers
    total_files,        \* self.progress.total_files
    downloaded_files,   \* self.progress.downloaded_files
    status,             \* self.progress.status
    current_chapter,    \* self.progress.current_chapter (0 is None)
    current_file,       \* self.progress.current_file (0 is None)
    stop_event,         \* self._stop_event.is_set()
    observed,           \* what the progress callback saw when last invoked
    \* download_manga (the calling thread)
    pc,                 \* position of the caller in download_manga
    runs,               \* calls of download_manga so far
    chapters,           \* manga.chapters: chapters[c] is len(chapter.pages)
    success,            \* local variable success
    result,             \* value returned by the last call: "True", "False"
                        \* ("none" while a call is in flight)
    \* chapter pool and _download_chapter tasks
    queue,              \* work queue of the chapter executor (FIFO)
    chState,            \* position of each chapter task
    joined,             \* chapter futures already yielded by as_completed
    chapter_success,    \* local variable chapter_success of each task
    chapter_downloaded, \* chapter.downloaded
    \* page pool of each chapter and its download_file tasks
    pgState,            \* position of each page fetch
    page_downloaded,    \* page.downloaded
    submits,            \* times each page was handed to executor.submit
    \* DownloadWorker.download_file (SpecFetch)
    f_max_retries,      \* self.max_retries
    f_url,              \* url argument ("" or "u")
    f_pc,               \* position inside download_file
    f_attempt,          \* loop variable attempt
    f_file,             \* the file at file_path: "absent", "empty", "data"
    f_result,           \* returned value: "True", "False" ("none" before)
    f_log,              \* outcome of each attempt made so far
    f_sleeps,           \* arguments of the time.sleep calls made so far
    \* MangaDownloader._notify_progress (SpecNotify)
    progress_callbacks, \* self.progress_callbacks: the kind of each observer
    lock,               \* self._lock: "free" or "held"
    n_pc,               \* position inside _notify_progress
    n_index,            \* position of the for loop in progress_callbacks
    n_invoked,          \* observers invoked by the notification, in order
    n_errors,           \* calls of logger.error made by the notification
    \* chapter keys and folder names (SpecFolders)
    sc_numbers,         \* number of each Chapter of the scraped list, in
                        \* thousandths (1500 is 1.5)
    sc_pc,              \* "scrape" while the list is built, then "named"
    folders,            \* chapter_folder_name of each chapter of the list
    \* pages of one chapter and their file paths (SpecPaths)
    remote_images,      \* the img elements of the chapter's remote page: the
                        \* url of each (0: no url, loading gif, invalid url)
    ch_pages,           \* chapter.pages
    scrapes,            \* runs of scrape_chapter_pages that reached the loop
    sp_result,          \* value returned by the last scrape_chapter_pages
    title,              \* manga.title, a sequence of characters
    ch_number,          \* chapter.number, in thousandths
    download_path,      \* manga.download_path, a sequence of path components
                        \* (<<>> is None)
    file_paths,         \* page.file_path of each page of chapter.pages
    p_pc,               \* "discover", then "pathset", then "assigned"/"empty"
    \* scrape_selected_chapters (SpecDiscover) and the front ends (SpecFlow)
    d_n,                \* len(chapters) of the chapters to discover
    d_workers,          \* max_workers of the discovery pool
    d_pc,               \* position of the thread in scrape_selected_chapters
    d_state,            \* per chapter: "none", "queued", "running", then the
                        \* outcome of scrape_chapter_pages: "True", "False",
                        \* "raised"
    d_collected,        \* chapters whose future the as_completed loop handled
    d_failed,           \* failed_chapters
    d_successful,       \* successful_chapters
    d_result,           \* value returned by scrape_selected_chapters
    flow,               \* the front end that runs: "quick", "cli",
                        \* "cli_args", "gui" ("none": no front end)
    fl_pc,              \* position of the front end
    \* download_chapter_range (SpecRange)
    rg_keys,            \* number of each chapter of manga.chapters, in
                        \* thousandths
    rg_start,           \* argument start, in thousandths
    rg_end,             \* argument end, in thousandths
    rg_pc,              \* position of the thread in download_chapter_range
    rg_selected,        \* numbers of temp_manga.chapters, handed to
                        \* download_manga
    rg_result           \* value returned by download_chapter_range

progressVars == <<total_files, downloaded_files, status, current_chapter,
                  current_file>>
mainVars == <<max_workers, total_files, downloaded_files, status,
              current_chapter, current_file, stop_event, observed, pc, runs,
              chapters, success, result, queue, chState, joined,
              chapter_success, chapter_downloaded, pgState, page_downloaded,
              submits>>
fetchVars == <<f_max_retries, f_url, f_pc, f_attempt, f_file, f_result,
               f_log, f_sleeps>>
notifyVars == <<progress_callbacks, lock, n_pc, n_index, n_invoked, n_errors>>
folderVars == <<sc_numbers, sc_pc, folders>>
pathVars == <<remote_images, ch_pages, scrapes, sp_result, title, ch_number,
              download_path, file_paths, p_pc>>
discoverVars == <<d_n, d_workers, d_pc, d_state, d_collected, d_failed,
                  d_successful, d_result>>
frontVars == <<flow, fl_pc>>
rangeVars == <<rg_keys, rg_start, rg_end, rg_pc, rg_selected, rg_result>>
flowVars == <<discoverVars, frontVars, rangeVars>>
unitVars == <<notifyVars, folderVars, pathVars, flowVars>>
vars == <<mainVars, fetchVars, unitVars>>

Chapters == 1..MaxChapters
PageIdx == 1..MaxPages

\* the series a caller can submit: a list of chapters, each with its pages
SeriesSet == UNION {[1..n -> 0..MaxPages] : n \in 0..MaxChapters}

RECURSIVE SumSeq(_)
SumSeq(s) == IF s = <<>> THEN 0 ELSE Head(s) + SumSeq(Tail(s))

Min(a, b) == IF a < b THEN a ELSE b

\* chapters and pages of the series in flight
ChapterSet == 1..Len(chapters)
NumPages(c) == IF c \in ChapterSet THEN chapters[c] ELSE 0
PagesOf(c) == 1..NumPages(c)

\* callback(self.progress): what an observer reads from the progress object
Snapshot == [total |-> total_files, downloaded |-> downloaded_files,
             status |-> status]

Settled == {"retT", "retF", "raised"}
InChapter == {"submit", "join", "notify"}

\* chapter tasks occupying a worker thread of the chapter pool
RunningChapters == {c \in ChapterSet : chState[c] \in InChapter}
\* fetches occupying a worker thread of the page pool of chapter c
RunningFetches(c) == {p \in PagesOf(c) : pgState[c][p] = "running"}


\* ---- initial state: MangaDownloader.__init__, DownloadProgress() ----
FetchIdle ==
    /\ f_max_retries = 0
    /\ f_url = "u"
    /\ f_pc = "idle"
    /\ f_attempt = 0
    /\ f_file = "absent"
    /\ f_result = "none"
    /\ f_log = <<>>
    /\ f_sleeps = <<>>

\* no observer registered, no notification in progress
NotifyIdle ==
    /\ progress_callbacks = <<>>
    /\ lock = "free"
    /\ n_pc = "idle"
    /\ n_index = 0
    /\ n_invoked = <<>>
    /\ n_errors = 0

\* no chapter list scraped
FoldersIdle ==
    /\ sc_numbers = <<>>
    /\ sc_pc = "scrape"
    /\ folders = <<>>

\* a chapter as built by its constructor, nothing scraped, no path set
PathsIdle ==
    /\ remote_images = <<>>
    /\ ch_pages = <<>>
    /\ scrapes = 0
    /\ sp_result = "none"
    /\ title = <<"a">>
    /\ ch_number = 1000
    /\ download_path = <<>>
    /\ file_paths = <<>>
    /\ p_pc = "discover"

\* no discovery called, no front end running, no range requested
FlowIdle ==
    /\ d_n = 0
    /\ d_workers = 1
    /\ d_pc = "idle"
    /\ d_state = [c \in Chapters |-> "none"]
    /\ d_collected = {}
    /\ d_failed = <<>>
    /\ d_successful = 0
    /\ d_result = "none"
    /\ flow = "none"
    /\ fl_pc = "idle"
    /\ rg_keys = <<>>
    /\ rg_start = 0
    /\ rg_end = 0
    /\ rg_pc = "idle"
    /\ rg_selected = <<>>
    /\ rg_result = "none"

MainInit(w) ==
    /\ max_workers = w
    /\ total_files = 0
    /\ downloaded_files = 0
    /\ status = "idle"
    /\ current_chapter = 0
    /\ current_file = 0
    /\ stop_event = FALSE
    /\ observed = [total |-> 0, downloaded |-> 0, status |-> "none"]
    /\ pc = "idle"
    /\ runs = 0
    /\ chapters = <<>>
    /\ success = TRUE
    /\ result = "none"
    /\ queue = <<>>
    /\ chState = [c \in Chapters |-> "none"]
    /\ joined = {}
    /\ chapter_success = [c \in Chapters |-> TRUE]
    /\ chapter_downloaded = [c \in Chapters |-> FALSE]
    /\ pgState = [c \in Chapters |-> [p \in PageIdx |-> "new"]]
    /\ page_downloaded = [c \in Chapters |-> [p \in PageIdx |-> FALSE]]
    /\ submits = [c \in Chapters |-> [p \in PageIdx |-> 0]]

Init ==
    /\ \E w \in 1..MaxWorkers : MainInit(w)
    /\ FetchIdle
    /\ NotifyIdle
    /\ FoldersIdle
    /\ PathsIdle
    /\ FlowIdle

\* ---- download_manga ----

\* lines 133-154: the call, with a series of freshly built Manga, Chapter and
\* Page objects; the download path is set and total_files is written
StartRun(series) ==
    /\ pc \in {"idle", "done"}
    /\ runs < MaxRuns
    /\ runs' = runs + 1
    /\ chapters' = series
    /\ total_files' = SumSeq(series)
    /\ result' = "none"
    /\ success' = TRUE
    /\ queue' = <<>>
    /\ chState' = [c \in Chapters |-> "none"]
    /\ joined' = {}
    /\ chapter_success' = [c \in Chapters |-> TRUE]
    /\ chapter_downloaded' = [c \in Chapters |-> FALSE]
    /\ pgState' = [c \in Chapters |-> [p \in PageIdx |-> "new"]]
    /\ page_downloaded' = [c \in Chapters |-> [p \in PageIdx |-> FALSE]]
    /\ submits' = [c \in Chapters |-> [p \in PageIdx |-> 0]]
    /\ pc' = "reset"
    /\ UNCHANGED <<max_workers, downloaded_files, status, current_chapter,
                   current_file, stop_event, observed, fetchVars, unitVars>>

\* The reset of line 155 done with DownloadProgress.reset(), which clears
\* total_files as well
ResetCountResetsAll ==
    /\ pc = "reset"
    /\ downloaded_files' = 0
    /\ total_files' = 0
    /\ pc' = "status"
    /\ UNCHANGED <<max_workers, status, current_chapter, current_file,
                   stop_event, observed, runs, chapters, success, result,
                   queue, chState, joined, chapter_success,
                   chapter_downloaded, pgState, page_downloaded, submits,
                   fetchVars, unitVars>>

\* line 155
ResetCount ==
    /\ pc = "reset"
    /\ downloaded_files' = 0
    /\ pc' = "status"
    /\ UNCHANGED <<max_workers, total_files, status, current_chapter,
                   current_file, stop_event, observed, runs, chapters,
                   success, result, queue, chState, joined, chapter_success,
                   chapter_downloaded, pgState, page_downloaded, submits,
                   fetchVars, unitVars>>

\* lines 156-162: status, success = True, the chapter executor is created
SetDownloading ==
    /\ pc = "status"
    /\ status' = "downloading"
    /\ pc' = IF Len(chapters) = 0 THEN "join" ELSE "submit"
    /\ UNCHANGED <<max_workers, total_files, downloaded_files,
                   current_chapter, current_file, stop_event, observed, runs,
                   chapters, success, result, queue, chState, joined,
                   chapter_success, chapter_downloaded, pgState,
                   page_downloaded, submits, fetchVars, unitVars>>

\* SubmitChapter walking manga.chapters from its end
SubmitChapterReversed ==
    /\ pc = "submit"
    /\ LET c == CHOOSE k \in ChapterSet :
                    /\ chState[k] = "none"
                    /\ \A j \in (k + 1)..Len(chapters) : chState[j] # "none"
       IN /\ chState' = [chState EXCEPT ![c] = "queued"]
          /\ queue' = Append(queue, c)
          /\ pc' = IF c = 1 THEN "join" ELSE "submit"
    /\ UNCHANGED <<max_workers, progressVars, stop_event, observed, runs,
                   chapters, success, result, joined, chapter_success,
                   chapter_downloaded, pgState, page_downloaded, submits,
                   fetchVars, unitVars>>

\* lines 164-167: executor.submit of the next chapter of manga.chapters
SubmitChapter ==
    /\ pc = "submit"
    /\ LET c == CHOOSE k \in ChapterSet :
                    /\ chState[k] = "none"
                    /\ \A j \in 1..(k - 1) : chState[j] # "none"
       IN /\ chState' = [chState EXCEPT ![c] = "queued"]
          /\ queue' = Append(queue, c)
          /\ pc' = IF c = Len(chapters) THEN "join" ELSE "submit"
    /\ UNCHANGED <<max_workers, progressVars, stop_event, observed, runs,
                   chapters, success, result, joined, chapter_success,
                   chapter_downloaded, pgState, page_downloaded, submits,
                   fetchVars, unitVars>>

\* JoinChapter with the except branch of lines 177-179 leaving success alone
JoinChapterRaiseIgnored(c) ==
    /\ pc = "join"
    /\ c \in ChapterSet \ joined
    /\ chState[c] \in Settled
    /\ joined' = joined \cup {c}
    /\ success' = (success /\ chState[c] # "retF")
    /\ UNCHANGED <<max_workers, progressVars, stop_event, observed, pc, runs,
                   chapters, result, queue, chState, chapter_success,
                   chapter_downloaded, pgState, page_downloaded, submits,
                   fetchVars, unitVars>>

\* lines 170-179: as_completed yields a settled chapter future; its result
\* (or its exception) is folded into success
JoinChapter(c) ==
    /\ pc = "join"
    /\ c \in ChapterSet \ joined
    /\ chState[c] \in Settled
    /\ joined' = joined \cup {c}
    /\ success' = (success /\ chState[c] = "retT")
    /\ UNCHANGED <<max_workers, progressVars, stop_event, observed, pc, runs,
                   chapters, result, queue, chState, chapter_success,
                   chapter_downloaded, pgState, page_downloaded, submits,
                   fetchVars, unitVars>>

\* FinalStatus reached as soon as one failure was seen (a fail-fast loop that
\* does not wait for the remaining chapter tasks)
FinalStatusFailFast ==
    /\ pc = "join"
    /\ joined = ChapterSet \/ ~success
    /\ status' = IF success THEN "completed" ELSE "error"
    /\ pc' = "notify"
    /\ UNCHANGED <<max_workers, total_files, downloaded_files,
                   current_chapter, current_file, stop_event, observed, runs,
                   chapters, success, result, queue, chState, joined,
                   chapter_success, chapter_downloaded, pgState,
                   page_downloaded, submits, fetchVars, unitVars>>

\* lines 170, 162 and 182: the as_completed loop ends when every future has
\* been yielded, the with block shuts the executor down, the status is set
FinalStatus ==
    /\ pc = "join"
    /\ joined = ChapterSet
    /\ status' = IF success THEN "completed" ELSE "error"
    /\ pc' = "notify"
    /\ UNCHANGED <<max_workers, total_files, downloaded_files,
                   current_chapter, current_file, stop_event, observed, runs,
                   chapters, success, result, queue, chState, joined,
                   chapter_success, chapter_downloaded, pgState,
                   page_downloaded, submits, fetchVars, unitVars>>

\* line 183: _notify_progress
FinalNotify ==
    /\ pc = "notify"
    /\ observed' = Snapshot
    /\ pc' = "return"
    /\ UNCHANGED <<max_workers, progressVars, stop_event, runs, chapters,
                   success, result, queue, chState, joined, chapter_success,
                   chapter_downloaded, pgState, page_downloaded, submits,
                   fetchVars, unitVars>>

\* line 186: return success
Return ==
    /\ pc = "return"
    /\ result' = IF success THEN "True" ELSE "False"
    /\ pc' = "done"
    /\ UNCHANGED <<max_workers, progressVars, stop_event, observed, runs,
                   chapters, success, queue, chState, joined, chapter_success,
                   chapter_downloaded, pgState, page_downloaded, submits,
                   fetchVars, unitVars>>


\* ---- _download_chapter, run by a worker thread of the chapter pool ----

\* a worker thread of the chapter executor (at most max_workers of them)
\* takes the task at the head of the work queue
CanStartChapter(c) ==
    /\ queue # <<>>
    /\ Head(queue) = c
    /\ Cardinality(RunningChapters) < max_workers

\* A chapter without pages reported as downloaded (nothing failed)
ChapterEmptySucceeds(c) ==
    /\ CanStartChapter(c)
    /\ NumPages(c) = 0
    /\ queue' = Tail(queue)
    /\ chState' = [chState EXCEPT ![c] = "retT"]
    /\ UNCHANGED <<max_workers, progressVars, stop_event, observed, pc, runs,
                   chapters, success, result, joined, chapter_success,
                   chapter_downloaded, pgState, page_downloaded, submits,
                   fetchVars, unitVars>>

\* lines 199-201: no pages, return False
ChapterEmpty(c) ==
    /\ CanStartChapter(c)
    /\ NumPages(c) = 0
    /\ queue' = Tail(queue)
    /\ chState' = [chState EXCEPT ![c] = "retF"]
    /\ UNCHANGED <<max_workers, progressVars, stop_event, observed, pc, runs,
                   chapters, success, result, joined, chapter_success,
                   chapter_downloaded, pgState, page_downloaded, submits,
                   fetchVars, unitVars>>

\* lines 203-222: ensure_directory creates the chapter directory; then
\* current_chapter is set under the lock, chapter_success = True, and the page
\* executor is created
ChapterBegin(c) ==
    /\ CanStartChapter(c)
    /\ NumPages(c) > 0
    /\ queue' = Tail(queue)
    /\ current_chapter' = c
    /\ chapter_success' = [chapter_success EXCEPT ![c] = TRUE]
    /\ chState' = [chState EXCEPT ![c] = "submit"]
    /\ UNCHANGED <<max_workers, total_files, downloaded_files, status,
                   current_file, stop_event, observed, pc, runs, chapters,
                   success, result, joined, chapter_downloaded, pgState,
                   page_downloaded, submits, fetchVars, unitVars>>

\* line 209: Path.mkdir raises OSError, which leaves _download_chapter
ChapterMkdirFails(c) ==
    /\ CanStartChapter(c)
    /\ NumPages(c) > 0
    /\ queue' = Tail(queue)
    /\ chState' = [chState EXCEPT ![c] = "raised"]
    /\ UNCHANGED <<max_workers, progressVars, stop_event, observed, pc, runs,
                   chapters, success, result, joined, chapter_success,
                   chapter_downloaded, pgState, page_downloaded, submits,
                   fetchVars, unitVars>>

\* lines 225-227: the next page of chapter.pages gets its file_path and is
\* handed to executor.submit
SubmitPage(c) ==
    /\ c \in ChapterSet
    /\ chState[c] = "submit"
    /\ LET p == CHOOSE k \in PagesOf(c) :
                    /\ pgState[c][k] = "new"
                    /\ \A j \in 1..(k - 1) : pgState[c][j] # "new"
       IN /\ pgState' = [pgState EXCEPT ![c][p] = "queued"]
          /\ submits' = [submits EXCEPT ![c][p] = @ + 1]
          /\ chState' = [chState EXCEPT
                            ![c] = IF p = NumPages(c) THEN "join" ELSE "submit"]
    /\ UNCHANGED <<max_workers, progressVars, stop_event, observed, pc, runs,
                   chapters, success, result, queue, joined, chapter_success,
                   chapter_downloaded, page_downloaded, fetchVars, unitVars>>

\* PoolWidth without the min: one worker thread per page
PoolWidthPerPage(c) == NumPages(c)

\* line 222: ThreadPoolExecutor(max_workers=min(self.max_workers, len(pages)))
PoolWidth(c) == Min(max_workers, NumPages(c))

\* a worker thread of the page executor of chapter c takes the oldest queued
\* fetch and calls worker.download_file
FetchStart(c, p) ==
    /\ c \in ChapterSet
    /\ p \in PagesOf(c)
    /\ pgState[c][p] = "queued"
    /\ \A j \in 1..(p - 1) : pgState[c][j] # "queued"
    /\ Cardinality(RunningFetches(c)) < PoolWidth(c)
    /\ pgState' = [pgState EXCEPT ![c][p] = "running"]
    /\ UNCHANGED <<max_workers, progressVars, stop_event, observed, pc, runs,
                   chapters, success, result, queue, chState, joined,
                   chapter_success, chapter_downloaded, page_downloaded,
                   submits, fetchVars, unitVars>>

\* download_file returns r (it returns a boolean on every path, see SpecFetch)
FetchFinish(c, p, r) ==
    /\ c \in ChapterSet
    /\ p \in PagesOf(c)
    /\ pgState[c][p] = "running"
    /\ pgState' = [pgState EXCEPT ![c][p] = IF r THEN "ok" ELSE "fail"]
    /\ UNCHANGED <<max_workers, progressVars, stop_event, observed, pc, runs,
                   chapters, success, result, queue, chState, joined,
                   chapter_success, chapter_downloaded, page_downloaded,
                   submits, fetchVars, unitVars>>

\* CollectPage without line 244: a failed page leaves chapter_success alone
CollectPageKeepsSuccess(c, p) ==
    /\ c \in ChapterSet
    /\ p \in PagesOf(c)
    /\ chState[c] = "join"
    /\ pgState[c][p] \in {"ok", "fail"}
    /\ page_downloaded' = [page_downloaded EXCEPT ![c][p] = (pgState[c][p] = "ok")]
    /\ downloaded_files' = downloaded_files + 1
    /\ current_file' = p
    /\ pgState' = [pgState EXCEPT ![c][p] = "collected"]
    /\ UNCHANGED <<max_workers, total_files, status, current_chapter,
                   stop_event, observed, pc, runs, chapters, success, result,
                   queue, chState, joined, chapter_success, chapter_downloaded,
                   submits, fetchVars, unitVars>>

\* CollectPage counting only the pages that were downloaded
CollectPageCountsSuccess(c, p) ==
    /\ c \in ChapterSet
    /\ p \in PagesOf(c)
    /\ chState[c] = "join"
    /\ pgState[c][p] \in {"ok", "fail"}
    /\ page_downloaded' = [page_downloaded EXCEPT ![c][p] = (pgState[c][p] = "ok")]
    /\ downloaded_files' = downloaded_files + (IF pgState[c][p] = "ok" THEN 1 ELSE 0)
    /\ current_file' = p
    /\ chapter_success' = [chapter_success EXCEPT
                              ![c] = (@ /\ pgState[c][p] = "ok")]
    /\ pgState' = [pgState EXCEPT ![c][p] = "collected"]
    /\ UNCHANGED <<max_workers, total_files, status, current_chapter,
                   stop_event, observed, pc, runs, chapters, success, result,
                   queue, chState, joined, chapter_downloaded, submits,
                   fetchVars, unitVars>>

\* lines 230-245: as_completed yields a settled fetch; page.downloaded is set,
\* the counter and current_file are updated under the lock, a failure clears
\* chapter_success
CollectPage(c, p) ==
    /\ c \in ChapterSet
    /\ p \in PagesOf(c)
    /\ chState[c] = "join"
    /\ pgState[c][p] \in {"ok", "fail"}
    /\ page_downloaded' = [page_downloaded EXCEPT ![c][p] = (pgState[c][p] = "ok")]
    /\ downloaded_files' = downloaded_files + 1
    /\ current_file' = p
    /\ chapter_success' = [chapter_success EXCEPT
                              ![c] = (@ /\ pgState[c][p] = "ok")]
    /\ pgState' = [pgState EXCEPT ![c][p] = "collected"]
    /\ UNCHANGED <<max_workers, total_files, status, current_chapter,
                   stop_event, observed, pc, runs, chapters, success, result,
                   queue, chState, joined, chapter_downloaded, submits,
                   fetchVars, unitVars>>

\* ChapterFinish reached as soon as one page failed (a fail-fast loop that
\* abandons the remaining fetches)
ChapterFinishFailFast(c) ==
    /\ c \in ChapterSet
    /\ chState[c] = "join"
    /\ (\A p \in PagesOf(c) : pgState[c][p] = "collected") \/ ~chapter_success[c]
    /\ chapter_downloaded' = [chapter_downloaded EXCEPT ![c] = chapter_success[c]]
    /\ current_chapter' = 0
    /\ current_file' = 0
    /\ chState' = [chState EXCEPT ![c] = "notify"]
    /\ UNCHANGED <<max_workers, total_files, downloaded_files, status,
                   stop_event, observed, pc, runs, chapters, success, result,
                   queue, joined, chapter_success, pgState, page_downloaded,
                   submits, fetchVars, unitVars>>

\* ChapterFinish taking the pages of a failed chapter off the counter
ChapterFinishRollsBack(c) ==
    /\ c \in ChapterSet
    /\ chState[c] = "join"
    /\ \A p \in PagesOf(c) : pgState[c][p] = "collected"
    /\ chapter_downloaded' = [chapter_downloaded EXCEPT ![c] = chapter_success[c]]
    /\ downloaded_files' = IF chapter_success[c] THEN downloaded_files
                           ELSE downloaded_files - NumPages(c)
    /\ current_chapter' = 0
    /\ current_file' = 0
    /\ chState' = [chState EXCEPT ![c] = "notify"]
    /\ UNCHANGED <<max_workers, total_files, status, stop_event, observed, pc,
                   runs, chapters, success, result, queue, joined,
                   chapter_success, pgState, page_downloaded, submits,
                   fetchVars, unitVars>>

\* ChapterFinish without line 257: current_file keeps the last page
ChapterFinishKeepsFile(c) ==
    /\ c \in ChapterSet
    /\ chState[c] = "join"
    /\ \A p \in PagesOf(c) : pgState[c][p] = "collected"
    /\ chapter_downloaded' = [chapter_downloaded EXCEPT ![c] = chapter_success[c]]
    /\ current_chapter' = 0
    /\ chState' = [chState EXCEPT ![c] = "notify"]
    /\ UNCHANGED <<max_workers, total_files, downloaded_files, status,
                   current_file, stop_event, observed, pc, runs, chapters,
                   success, result, queue, joined, chapter_success, pgState,
                   page_downloaded, submits, fetchVars, unitVars>>

\* lines 230, 222 and 251-257: the as_completed loop ends when every fetch has
\* been yielded, the with block shuts the page executor down, chapter.downloaded
\* is set, current_chapter and current_file are cleared under the lock
ChapterFinish(c) ==
    /\ c \in ChapterSet
    /\ chState[c] = "join"
    /\ \A p \in PagesOf(c) : pgState[c][p] = "collected"
    /\ chapter_downloaded' = [chapter_downloaded EXCEPT ![c] = chapter_success[c]]
    /\ current_chapter' = 0
    /\ current_file' = 0
    /\ chState' = [chState EXCEPT ![c] = "notify"]
    /\ UNCHANGED <<max_workers, total_files, downloaded_files, status,
                   stop_event, observed, pc, runs, chapters, success, result,
                   queue, joined, chapter_success, pgState, page_downloaded,
                   submits, fetchVars, unitVars>>

\* lines 259-260: _notify_progress, return chapter_success
ChapterReturn(c) ==
    /\ c \in ChapterSet
    /\ chState[c] = "notify"
    /\ observed' = Snapshot
    /\ chState' = [chState EXCEPT
                      ![c] = IF chapter_success[c] THEN "retT" ELSE "retF"]
    /\ UNCHANGED <<max_workers, progressVars, stop_event, pc, runs, chapters,
                   success, result, queue, joined, chapter_success,
                   chapter_downloaded, pgState, page_downloaded, submits,
                   fetchVars, unitVars>>

\* ---- controls, called from another thread at any time ----

\* pause_download without line 323: the signal is left as it is
pause_downloadNoSignal ==
    /\ status' = "paused"
    /\ observed' = [Snapshot EXCEPT !.status = "paused"]
    /\ UNCHANGED <<max_workers, total_files, downloaded_files,
                   current_chapter, current_file, stop_event, pc, runs,
                   chapters, success, result, queue, chState, joined,
                   chapter_success, chapter_downloaded, pgState,
                   page_downloaded, submits, fetchVars, unitVars>>

\* lines 319-324
pause_download ==
    /\ status' = "paused"
    /\ stop_event' = TRUE
    /\ observed' = [Snapshot EXCEPT !.status = "paused"]
    /\ UNCHANGED <<max_workers, total_files, downloaded_files,
                   current_chapter, current_file, pc, runs, chapters, success,
                   result, queue, chState, joined, chapter_success,
                   chapter_downloaded, pgState, page_downloaded, submits,
                   fetchVars, unitVars>>

\* lines 326-331
resume_download ==
    /\ status' = "downloading"
    /\ stop_event' = FALSE
    /\ observed' = [Snapshot EXCEPT !.status = "downloading"]
    /\ UNCHANGED <<max_workers, total_files, downloaded_files,
                   current_chapter, current_file, pc, runs, chapters, success,
                   result, queue, chState, joined, chapter_success,
                   chapter_downloaded, pgState, page_downloaded, submits,
                   fetchVars, unitVars>>

\* stop_download clearing the progress with DownloadProgress.reset()
stop_downloadResets ==
    /\ status' = "idle"
    /\ stop_event' = TRUE
    /\ total_files' = 0
    /\ downloaded_files' = 0
    /\ current_chapter' = 0
    /\ current_file' = 0
    /\ observed' = [total |-> 0, downloaded |-> 0, status |-> "idle"]
    /\ UNCHANGED <<max_workers, pc, runs, chapters, success, result, queue,
                   chState, joined, chapter_success, chapter_downloaded,
                   pgState, page_downloaded, submits, fetchVars, unitVars>>

\* lines 333-338
stop_download ==
    /\ status' = "idle"
    /\ stop_event' = TRUE
    /\ observed' = [Snapshot EXCEPT !.status = "idle"]
    /\ UNCHANGED <<max_workers, total_files, downloaded_files,
                   current_chapter, current_file, pc, runs, chapters, success,
                   result, queue, chState, joined, chapter_success,
                   chapter_downloaded, pgState, page_downloaded, submits,
                   fetchVars, unitVars>>

\* a step of a run in flight: the caller, a chapter task or a page fetch
RunProgress ==
    \/ ResetCount
    \/ SetDownloading
    \/ SubmitChapter
    \/ \E c \in Chapters : JoinChapter(c)
    \/ FinalStatus
    \/ FinalNotify
    \/ Return
    \/ \E c \in Chapters : ChapterEmpty(c)
    \/ \E c \in Chapters : ChapterBegin(c)
    \/ \E c \in Chapters : ChapterMkdirFails(c)
    \/ \E c \in Chapters : SubmitPage(c)
    \/ \E c \in Chapters, p \in PageIdx : FetchStart(c, p)
    \/ \E c \in Chapters, p \in PageIdx, r \in BOOLEAN : FetchFinish(c, p, r)
    \/ \E c \in Chapters, p \in PageIdx : CollectPage(c, p)
    \/ \E c \in Chapters : ChapterFinish(c)
    \/ \E c \in Chapters : ChapterReturn(c)

RunStep ==
    \/ \E series \in SeriesSet : StartRun(series)
    \/ RunProgress

ControlStep ==
    \/ pause_download
    \/ resume_download
    \/ stop_download

Next == RunStep \/ ControlStep

\* the downloader with its controls called by other threads
Spec == Init /\ [][Next]_vars

\* the same under fair scheduling: the threads of a run in flight keep being
\* scheduled and every fetch settles (the callers of download_manga and of
\* the controls are free to call or not)
FairSpec == Spec /\ WF_vars(RunProgress)


\* ---- DownloadWorker.download_file: one fetch, attempt by attempt ----

\* Backoff growing linearly instead of exponentially
BackoffLinear(attempt) == 2 * attempt

\* line 78: the argument of time.sleep
Backoff(attempt) == 2 ^ attempt

\* DownloadWorker(session, max_retries); download_file(url, file_path) is
\* called and reaches the head of the loop of line 44
FetchCall(url) ==
    /\ f_pc = "idle"
    /\ f_url' = url
    /\ f_attempt' = 0
    /\ f_pc' = IF f_max_retries > 0 THEN "attempt" ELSE "exhausted"
    /\ UNCHANGED <<mainVars, unitVars, f_max_retries, f_file, f_result, f_log,
                   f_sleeps>>

\* lines 49-64 raise requests.RequestException: session.get (timeout,
\* connection error, or a url without a scheme such as the empty url),
\* raise_for_status (status not 2xx), or iter_content in mid-transfer, which
\* leaves what was written so far; lines 74-75 catch it
AttemptTransportError(written) ==
    /\ f_pc = "attempt"
    /\ written \in {"none", "empty", "data"}
    /\ f_url = "" => written = "none"
    /\ f_file' = IF written = "none" THEN f_file ELSE written
    /\ f_log' = Append(f_log, "transport")
    /\ f_pc' = "backoff"
    /\ UNCHANGED <<mainVars, unitVars, f_max_retries, f_url, f_attempt,
                   f_result, f_sleeps>>

\* lines 76-78 and 44: sleep unless this was the last attempt, then the next
\* iteration of the loop, or the end of the loop
BackoffAndLoop ==
    /\ f_pc = "backoff"
    /\ f_sleeps' = IF f_attempt < f_max_retries - 1
                   THEN Append(f_sleeps, Backoff(f_attempt))
                   ELSE f_sleeps
    /\ f_attempt' = f_attempt + 1
    /\ f_pc' = IF f_attempt + 1 < f_max_retries THEN "attempt" ELSE "exhausted"
    /\ UNCHANGED <<mainVars, unitVars, f_max_retries, f_url, f_file, f_result,
                   f_log>>

\* A local error handled like a transport error: wait and try again
AttemptLocalErrorRetried(written) ==
    /\ f_pc = "attempt"
    /\ f_url # ""
    /\ written \in {"none", "empty", "data"}
    /\ f_file' = IF written = "none" THEN f_file ELSE written
    /\ f_log' = Append(f_log, "local")
    /\ f_pc' = "backoff"
    /\ UNCHANGED <<mainVars, unitVars, f_max_retries, f_url, f_attempt,
                   f_result, f_sleeps>>

\* lines 56-64 raise an error that is no RequestException (ensure_directory,
\* open or write fail with OSError); lines 80-82 catch it and leave the loop
AttemptLocalError(written) ==
    /\ f_pc = "attempt"
    /\ f_url # ""
    /\ written \in {"none", "empty", "data"}
    /\ f_file' = IF written = "none" THEN f_file ELSE written
    /\ f_log' = Append(f_log, "local")
    /\ f_pc' = "exhausted"
    /\ UNCHANGED <<mainVars, unitVars, f_max_retries, f_url, f_attempt,
                   f_result, f_sleeps>>

\* lines 49-64 complete: the body was written to file_path (it may be empty,
\* and the file may be gone again when line 67 looks at it)
AttemptTransferred(file) ==
    /\ f_pc = "attempt"
    /\ f_url # ""
    /\ file \in {"absent", "empty", "data"}
    /\ f_file' = file
    /\ f_pc' = "verify"
    /\ UNCHANGED <<mainVars, unitVars, f_max_retries, f_url, f_attempt,
                   f_result, f_log,
                   f_sleeps>>

\* Verify treating a missing or empty file as a failed attempt to be retried
VerifyRetriesEmpty ==
    /\ f_pc = "verify"
    /\ f_result' = IF f_file = "data" THEN "True" ELSE f_result
    /\ f_log' = Append(f_log, IF f_file = "data" THEN "ok" ELSE "empty")
    /\ f_pc' = IF f_file = "data" THEN "done" ELSE "backoff"
    /\ UNCHANGED <<mainVars, unitVars, f_max_retries, f_url, f_attempt, f_file,
                   f_sleeps>>

\* lines 66-72: return True if the file exists and is not empty, else False
Verify ==
    /\ f_pc = "verify"
    /\ f_result' = IF f_file = "data" THEN "True" ELSE "False"
    /\ f_log' = Append(f_log, IF f_file = "data" THEN "ok" ELSE "empty")
    /\ f_pc' = "done"
    /\ UNCHANGED <<mainVars, unitVars, f_max_retries, f_url, f_attempt,
                   f_file, f_sleeps>>

\* After the loop the failure is raised to the caller instead of returned
ReturnFailedRaises ==
    /\ f_pc = "exhausted"
    /\ f_pc' = "raised"
    /\ UNCHANGED <<mainVars, unitVars, f_max_retries, f_url, f_attempt,
                   f_file, f_result,
                   f_log, f_sleeps>>

\* lines 84-85: after the loop, return False
ReturnFailed ==
    /\ f_pc = "exhausted"
    /\ f_result' = "False"
    /\ f_pc' = "done"
    /\ UNCHANGED <<mainVars, unitVars, f_max_retries, f_url, f_attempt,
                   f_file, f_log,
                   f_sleeps>>

InitFetch ==
    /\ MainInit(1)
    /\ f_max_retries \in 0..MaxRetries
    /\ f_url = "u"
    /\ f_pc = "idle"
    /\ f_attempt = 0
    /\ f_file \in {"absent", "data"}
    /\ f_result = "none"
    /\ f_log = <<>>
    /\ f_sleeps = <<>>
    /\ NotifyIdle
    /\ FoldersIdle
    /\ PathsIdle
    /\ FlowIdle

NextFetch ==
    \/ \E url \in {"", "u"} : FetchCall(url)
    \/ \E w \in {"none", "empty", "data"} : AttemptTransportError(w)
    \/ BackoffAndLoop
    \/ \E w \in {"none", "empty", "data"} : AttemptLocalError(w)
    \/ \E f \in {"absent", "empty", "data"} : AttemptTransferred(f)
    \/ Verify
    \/ ReturnFailed

SpecFetch == InitFetch /\ [][NextFetch]_vars



\* ---- add_progress_callback and _notify_progress ----

\* what an observer does when it is called
ObserverKinds == {"ok", "raises"}

\* lines 114-122: the callback is appended under the lock
add_progress_callback(kind) ==
    /\ n_pc \in {"idle", "returned"}
    /\ lock = "free"
    /\ Len(progress_callbacks) < MaxObservers
    /\ progress_callbacks' = Append(progress_callbacks, kind)
    /\ UNCHANGED <<mainVars, fetchVars, flowVars, pathVars, folderVars, lock, n_pc,
                   n_index,
                   n_invoked, n_errors>>

\* lines 124-127: _notify_progress is called, takes the lock and starts the
\* for loop over progress_callbacks
NotifyEnter ==
    /\ n_pc \in {"idle", "returned"}
    /\ lock = "free"
    /\ lock' = "held"
    /\ n_index' = 1
    /\ n_invoked' = <<>>
    /\ n_errors' = 0
    /\ n_pc' = "loop"
    /\ UNCHANGED <<mainVars, fetchVars, flowVars, pathVars, folderVars,
                   progress_callbacks>>

\* lines 128-129: the next callback is called with self.progress and returns
CallbackReturns ==
    /\ n_pc = "loop"
    /\ n_index <= Len(progress_callbacks)
    /\ progress_callbacks[n_index] = "ok"
    /\ n_invoked' = Append(n_invoked, n_index)
    /\ n_index' = n_index + 1
    /\ UNCHANGED <<mainVars, fetchVars, flowVars, pathVars, folderVars,
                   progress_callbacks, lock,
                   n_pc, n_errors>>

\* The exception of a callback leaves _notify_progress (no try around the
\* call); the with block releases the lock on the way out
CallbackRaisesPropagated ==
    /\ n_pc = "loop"
    /\ n_index <= Len(progress_callbacks)
    /\ progress_callbacks[n_index] = "raises"
    /\ n_invoked' = Append(n_invoked, n_index)
    /\ lock' = "free"
    /\ n_pc' = "propagated"
    /\ UNCHANGED <<mainVars, fetchVars, flowVars, pathVars, folderVars,
                   progress_callbacks,
                   n_index, n_errors>>

\* lines 128-131: the next callback is called and raises; the exception is
\* caught and logged, and the loop goes on
CallbackRaises ==
    /\ n_pc = "loop"
    /\ n_index <= Len(progress_callbacks)
    /\ progress_callbacks[n_index] = "raises"
    /\ n_invoked' = Append(n_invoked, n_index)
    /\ n_errors' = n_errors + 1
    /\ n_index' = n_index + 1
    /\ UNCHANGED <<mainVars, fetchVars, flowVars, pathVars, folderVars,
                   progress_callbacks, lock,
                   n_pc>>

\* lines 126-127: the loop is over, the with block releases the lock,
\* _notify_progress returns
NotifyExit ==
    /\ n_pc = "loop"
    /\ n_index > Len(progress_callbacks)
    /\ lock' = "free"
    /\ n_pc' = "returned"
    /\ UNCHANGED <<mainVars, fetchVars, flowVars, pathVars, folderVars,
                   progress_callbacks,
                   n_index, n_invoked, n_errors>>

InitNotify ==
    /\ MainInit(1)
    /\ FetchIdle
    /\ NotifyIdle
    /\ FoldersIdle
    /\ PathsIdle
    /\ FlowIdle

NextNotify ==
    \/ \E kind \in ObserverKinds : add_progress_callback(kind)
    \/ NotifyEnter
    \/ CallbackReturns
    \/ CallbackRaises
    \/ NotifyExit

SpecNotify == InitNotify /\ [][NextNotify]_vars

\* ---- an observer that calls back into the downloader ----

\* "relock": an observer that, when called, calls add_progress_callback,
\* pause_download, resume_download or stop_download of the same downloader
ReenterKinds == ObserverKinds \cup {"relock"}

\* lines 126-129 with 121 (or 126 through 324, 331, 338): the callback runs
\* inside "with self._lock" of _notify_progress and its own call reaches
\* "with self._lock" in the same thread; threading.Lock is not reentrant, so
\* the acquire waits for a release that only this thread could make
CallbackRelocks ==
    /\ n_pc = "loop"
    /\ n_index <= Len(progress_callbacks)
    /\ progress_callbacks[n_index] = "relock"
    /\ n_invoked' = Append(n_invoked, n_index)
    /\ n_pc' = "blocked"
    /\ UNCHANGED <<mainVars, fetchVars, flowVars, pathVars, folderVars,
                   progress_callbacks, lock,
                   n_index, n_errors>>

NextReenter ==
    \/ \E kind \in ReenterKinds : add_progress_callback(kind)
    \/ NotifyEnter
    \/ CallbackReturns
    \/ CallbackRaises
    \/ CallbackRelocks
    \/ NotifyExit

SpecReenter == InitNotify /\ [][NextReenter]_vars


\* ---- chapter numbers and chapter folder names ----

\* the numbers float(chapter_match[0]) can give, in thousandths
ParsedNumbers == {500 * h : h \in 0..MaxHalves}

\* f"{number:.1f}" rounds to the nearest tenth; the result is in tenths.  (No
\* number of the model lies halfway between two tenths.)
RoundTenths(k) == (k + 50) \div 100

\* models.py lines 38-44: "Chapter_<int>" for a whole number, else
\* "Chapter_<number with one decimal>"; tenth = -1 stands for no decimal
chapter_folder_name(k) ==
    IF k % 1000 = 0
    THEN [whole |-> k \div 1000, tenth |-> -1]
    ELSE [whole |-> RoundTenths(k) \div 10, tenth |-> RoundTenths(k) % 10]

\* scraper.py lines 196-201, 242-250: a link whose id holds a number gives a
\* Chapter with that number
ScrapeNumbered(k) ==
    /\ sc_pc = "scrape"
    /\ Len(sc_numbers) < MaxLinks
    /\ k \in ParsedNumbers
    /\ sc_numbers' = Append(sc_numbers, k)
    /\ UNCHANGED <<mainVars, fetchVars, flowVars, pathVars, notifyVars, sc_pc, folders>>

\* scraper.py lines 202-204, 242-250: a link whose id holds no number gives a
\* Chapter numbered 0.0, or 0.001 above the last Chapter of the list
ScrapeFallback ==
    /\ sc_pc = "scrape"
    /\ Len(sc_numbers) < MaxLinks
    /\ sc_numbers' = Append(sc_numbers,
                            IF sc_numbers = <<>> THEN 0
                            ELSE sc_numbers[Len(sc_numbers)] + 1)
    /\ UNCHANGED <<mainVars, fetchVars, flowVars, pathVars, notifyVars, sc_pc, folders>>

\* downloader.py line 208: each chapter of the list gets the directory
\* os.path.join(manga.download_path, chapter.chapter_folder_name)
NameFolders ==
    /\ sc_pc = "scrape"
    /\ sc_numbers # <<>>
    /\ folders' = [i \in DOMAIN sc_numbers |-> chapter_folder_name(sc_numbers[i])]
    /\ sc_pc' = "named"
    /\ UNCHANGED <<mainVars, fetchVars, flowVars, pathVars, notifyVars, sc_numbers>>

InitFolders ==
    /\ MainInit(1)
    /\ FetchIdle
    /\ NotifyIdle
    /\ FoldersIdle
    /\ PathsIdle
    /\ FlowIdle

NextFolders ==
    \/ \E k \in ParsedNumbers : ScrapeNumbered(k)
    \/ ScrapeFallback
    \/ NameFolders

SpecFolders == InitFolders /\ [][NextFolders]_vars



\* ---- the pages of a chapter and their file paths ----

\* models.py lines 20-23, 50: f"page_{page_number:03d}.jpg", the digits of the
\* number padded with zeros to three places (the hundreds keep every digit
\* above the third)
Filename(n) == <<"page_", n \div 100, (n \div 10) % 10, n % 10, ".jpg">>

\* add_page numbering the page by its place in chapter.pages
add_pageByPosition(pages, url, n) ==
    Append(pages, [url |-> url, page_number |-> Len(pages) + 1,
                   filename |-> Filename(Len(pages) + 1)])

\* models.py lines 46-54: Chapter.add_page appends a Page to chapter.pages
add_page(pages, url, n) ==
    Append(pages, [url |-> url, page_number |-> n, filename |-> Filename(n)])

\* scraper.py lines 312-349: for idx, img in enumerate(image_elements, 1);
\* an image without a valid url is skipped, the others are added as page idx
RECURSIVE AddPages(_, _, _)
AddPages(pages, images, idx) ==
    IF idx > Len(images) THEN pages
    ELSE AddPages(IF images[idx] = 0 THEN pages
                  ELSE add_page(pages, images[idx], idx),
                  images, idx + 1)

\* scraper.py lines 261-353: scrape_chapter_pages loads the remote page and
\* adds a page per valid image; it returns pages_found > 0 (False at once
\* when the page has no img element)
ScrapePages ==
    /\ p_pc = "discover"
    /\ scrapes < MaxScrapes
    /\ scrapes' = scrapes + 1
    /\ ch_pages' = AddPages(ch_pages, remote_images, 1)
    /\ sp_result' = IF Len(AddPages(<<>>, remote_images, 1)) > 0
                    THEN "True" ELSE "False"
    /\ UNCHANGED <<mainVars, fetchVars, flowVars, notifyVars, folderVars, remote_images,
                   title, ch_number, download_path, file_paths, p_pc>>

\* scraper.py lines 273-277, 355-357: Playwright is missing, or the browser or
\* page.goto raises: False is returned and no page was added
ScrapePagesFails ==
    /\ p_pc = "discover"
    /\ sp_result' = "False"
    /\ UNCHANGED <<mainVars, fetchVars, flowVars, notifyVars, folderVars, remote_images,
                   ch_pages, scrapes, title, ch_number, download_path,
                   file_paths, p_pc>>

\* the characters of the model's titles that line 95 of models.py keeps
\* (c.isalnum() or c in (' ', '-', '_'))
KeptChar(c) == c \in {"a", " ", "-", "_"}

RECURSIVE KeepChars(_)
KeepChars(t) ==
    IF t = <<>> THEN <<>>
    ELSE IF KeptChar(Head(t)) THEN <<Head(t)>> \o KeepChars(Tail(t))
    ELSE KeepChars(Tail(t))

\* str.rstrip(): trailing blanks removed
RECURSIVE RStrip(_)
RStrip(t) ==
    IF t = <<>> THEN <<>>
    ELSE IF t[Len(t)] = " " THEN RStrip(SubSeq(t, 1, Len(t) - 1))
    ELSE t

\* models.py lines 95-97: folder_name of create_download_structure
SanitizedTitle(t) ==
    IF RStrip(KeepChars(t)) = <<>> THEN <<"untitled_manga">>
    ELSE RStrip(KeepChars(t))

\* models.py lines 92-101: create_download_structure(base_path)
create_download_structure(base_path) == <<base_path, SanitizedTitle(title)>>

\* downloader.py lines 146-150: download_manga(manga, arg) sets
\* manga.download_path ("none": the argument is not given)
SetDownloadPath(arg) ==
    /\ p_pc = "discover"
    /\ download_path' = IF arg # "none" THEN <<arg>>
                        ELSE IF download_path = <<>>
                        THEN create_download_structure("cwd/downloads")
                        ELSE download_path
    /\ p_pc' = "pathset"
    /\ UNCHANGED <<mainVars, fetchVars, flowVars, notifyVars, folderVars, remote_images,
                   ch_pages, scrapes, sp_result, title, ch_number, file_paths>>

\* downloader.py lines 199-201: _download_chapter on a chapter without pages
PathsChapterEmpty ==
    /\ p_pc = "pathset"
    /\ ch_pages = <<>>
    /\ p_pc' = "empty"
    /\ UNCHANGED <<mainVars, fetchVars, flowVars, notifyVars, folderVars, remote_images,
                   ch_pages, scrapes, sp_result, title, ch_number,
                   download_path, file_paths>>

\* downloader.py lines 208 and 225-226: chapter_path is download_path joined
\* with the folder name; each page gets chapter_path joined with its filename
AssignFilePaths ==
    /\ p_pc = "pathset"
    /\ ch_pages # <<>>
    /\ file_paths' = [i \in DOMAIN ch_pages |->
                         download_path \o <<chapter_folder_name(ch_number)>>
                                       \o <<ch_pages[i].filename>>]
    /\ p_pc' = "assigned"
    /\ UNCHANGED <<mainVars, fetchVars, flowVars, notifyVars, folderVars, remote_images,
                   ch_pages, scrapes, sp_result, title, ch_number,
                   download_path>>

\* the titles and chapter numbers of the model
Titles == {<<"a">>, <<"a", ":", "a">>, <<"a", " ">>, <<":">>}
ChapterNumbers == {1000, 1500}

InitPaths ==
    /\ MainInit(1)
    /\ FetchIdle
    /\ NotifyIdle
    /\ FoldersIdle
    /\ FlowIdle
    /\ remote_images \in UNION {[1..n -> 0..MaxUrls] : n \in 0..MaxImages}
    /\ ch_pages = <<>>
    /\ scrapes = 0
    /\ sp_result = "none"
    /\ title \in Titles
    /\ ch_number \in ChapterNumbers
    /\ download_path = <<>>
    /\ file_paths = <<>>
    /\ p_pc = "discover"

NextPaths ==
    \/ ScrapePages
    \/ ScrapePagesFails
    \/ \E arg \in {"none", "base"} : SetDownloadPath(arg)
    \/ PathsChapterEmpty
    \/ AssignFilePaths

SpecPaths == InitPaths /\ [][NextPaths]_vars


\* ---- scrape_selected_chapters ----

\* the variables no discovery, front end or range step touches
outsideFlow == <<mainVars, fetchVars, notifyVars, folderVars, pathVars>>

\* the chapters of the list given to the discovery, by position
Selected == 1..d_n

\* what a task of the discovery pool settles with: the boolean returned by
\* scrape_chapter_pages, or an exception that left it
DiscoverOutcomes == {"True", "False", "raised"}

\* scraper.py lines 416, 432-433: the call with its list and pool width;
\* successful_chapters = 0, failed_chapters = []
CallDiscover(n, w) ==
    /\ d_n' = n
    /\ d_workers' = w
    /\ d_state' = [c \in Chapters |-> "none"]
    /\ d_collected' = {}
    /\ d_failed' = <<>>
    /\ d_successful' = 0
    /\ d_result' = "none"
    /\ d_pc' = "entry"

\* scrape_selected_chapters called on its own
scrape_selected_chapters(n, w) ==
    /\ flow = "none"
    /\ d_pc \in {"idle", "returned"}
    /\ CallDiscover(n, w)
    /\ UNCHANGED <<outsideFlow, frontVars, rangeVars>>

\* scraper.py lines 427-429: if not chapters: return False
DiscoverEmpty ==
    /\ d_pc = "entry"
    /\ d_n = 0
    /\ d_result' = "False"
    /\ d_pc' = "returned"
    /\ UNCHANGED <<outsideFlow, frontVars, rangeVars, d_n, d_workers, d_state,
                   d_collected, d_failed, d_successful>>

\* scraper.py lines 436-441: executor.submit of the next chapter of the list
DiscoverSubmit ==
    /\ d_pc \in {"entry", "submit"}
    /\ d_n > 0
    /\ LET c == CHOOSE k \in Selected :
                    /\ d_state[k] = "none"
                    /\ \A j \in 1..(k - 1) : d_state[j] # "none"
       IN /\ d_state' = [d_state EXCEPT ![c] = "queued"]
          /\ d_pc' = IF c = d_n THEN "collect" ELSE "submit"
    /\ UNCHANGED <<outsideFlow, frontVars, rangeVars, d_n, d_workers,
                   d_collected, d_failed, d_successful, d_result>>

\* a worker of the discovery pool takes the oldest waiting task
DiscoverStart(c) ==
    /\ d_pc \in {"submit", "collect"}
    /\ c \in Selected
    /\ d_state[c] = "queued"
    /\ \A j \in 1..(c - 1) : d_state[j] # "queued"
    /\ Cardinality({k \in Selected : d_state[k] = "running"}) < d_workers
    /\ d_state' = [d_state EXCEPT ![c] = "running"]
    /\ UNCHANGED <<outsideFlow, frontVars, rangeVars, d_n, d_workers, d_pc,
                   d_collected, d_failed, d_successful, d_result>>

\* scrape_chapter_pages of the task returns True or False (scraper.py lines
\* 273-277, 353, 355-357), or an exception leaves it (line 271 is outside
\* its try)
DiscoverFinish(c, r) ==
    /\ d_pc \in {"submit", "collect"}
    /\ c \in Selected
    /\ d_state[c] = "running"
    /\ d_state' = [d_state EXCEPT ![c] = r]
    /\ UNCHANGED <<outsideFlow, frontVars, rangeVars, d_n, d_workers, d_pc,
                   d_collected, d_failed, d_successful, d_result>>

\* DiscoverCollect counting a task that raised as discovered
DiscoverCollectRaiseIgnored(c) ==
    /\ d_pc = "collect"
    /\ c \in Selected \ d_collected
    /\ d_state[c] \in DiscoverOutcomes
    /\ d_collected' = d_collected \cup {c}
    /\ IF d_state[c] \in {"True", "raised"}
       THEN /\ d_successful' = d_successful + 1
            /\ UNCHANGED d_failed
       ELSE /\ d_failed' = Append(d_failed, c)
            /\ UNCHANGED d_successful
    /\ UNCHANGED <<outsideFlow, frontVars, rangeVars, d_n, d_workers, d_pc,
                   d_state, d_result>>

\* scraper.py lines 444-457: as_completed yields a settled future; True is
\* counted, False and an exception append the chapter to failed_chapters
DiscoverCollect(c) ==
    /\ d_pc = "collect"
    /\ c \in Selected \ d_collected
    /\ d_state[c] \in DiscoverOutcomes
    /\ d_collected' = d_collected \cup {c}
    /\ IF d_state[c] = "True"
       THEN /\ d_successful' = d_successful + 1
            /\ UNCHANGED d_failed
       ELSE /\ d_failed' = Append(d_failed, c)
            /\ UNCHANGED d_successful
    /\ UNCHANGED <<outsideFlow, frontVars, rangeVars, d_n, d_workers, d_pc,
                   d_state, d_result>>

\* scraper.py lines 444, 459-465: the loop has handled every future, the with
\* block is left, return len(failed_chapters) == 0
DiscoverReturn ==
    /\ d_pc = "collect"
    /\ d_collected = Selected
    /\ d_result' = IF Len(d_failed) = 0 THEN "True" ELSE "False"
    /\ d_pc' = "returned"
    /\ UNCHANGED <<outsideFlow, frontVars, rangeVars, d_n, d_workers, d_state,
                   d_collected, d_failed, d_successful>>

\* the steps of a discovery that has chapters to discover
DiscoverPoolStep ==
    \/ DiscoverSubmit
    \/ \E c \in Chapters : DiscoverStart(c)
    \/ \E c \in Chapters : \E r \in DiscoverOutcomes : DiscoverFinish(c, r)
    \/ \E c \in Chapters : DiscoverCollect(c)
    \/ DiscoverReturn

InitDiscover ==
    /\ MainInit(1)
    /\ FetchIdle
    /\ NotifyIdle
    /\ FoldersIdle
    /\ PathsIdle
    /\ FlowIdle

NextDiscover ==
    \/ \E n \in 0..MaxChapters : \E w \in 1..MaxWorkers :
           scrape_selected_chapters(n, w)
    \/ DiscoverEmpty
    \/ DiscoverPoolStep

SpecDiscover == InitDiscover /\ [][NextDiscover]_vars


\* ---- the front ends: discovery, then download_manga ----

\* main.py run_quick_download, cli.py interactive flow and main_cli,
\* gui_workers.py DownloadWorker.run
Flows == {"quick", "cli", "cli_args", "gui"}

\* a front end starts with its selected chapters (never an empty list:
\* main.py 218, cli.py 235 and 474, gui_main_window.py 435 return before).  The GUI worker goes to the
\* discovery first (gui_workers.py 106), the others build their downloader
\* first (main.py 185, cli.py 287 and 435)
FlowStart(f, n) ==
    /\ fl_pc = "idle"
    /\ d_pc = "idle"
    /\ flow' = f
    /\ d_n' = n
    /\ fl_pc' = IF f = "gui" THEN "discover" ELSE "construct"
    /\ UNCHANGED <<outsideFlow, rangeVars, d_workers, d_pc, d_state,
                   d_collected, d_failed, d_successful, d_result>>

\* the front end builds its MangaDownloader.  main.py 185 passes max_workers.
\* cli.py 287-290 and 435-438 and gui_workers.py 116-119 pass chapter_workers
\* and image_workers, which __init__(self, max_workers, max_retries)
\* (downloader.py 91) does not take: the call raises TypeError and the flow is
\* over (in the GUI worker the except of line 151 catches it)
FlowConstruct ==
    /\ fl_pc = "construct"
    /\ fl_pc' = IF flow = "quick" THEN "loop" ELSE "TypeError"
    /\ UNCHANGED <<outsideFlow, rangeVars, discoverVars, flow>>

\* cli.py 294-297 and 494-497, gui_workers.py 106-109: the front end calls
\* scrape_selected_chapters on its chapters
FlowDiscover(w) ==
    /\ fl_pc = "discover"
    /\ CallDiscover(d_n, w)
    /\ fl_pc' = "discovering"
    /\ UNCHANGED <<outsideFlow, rangeVars, flow>>

\* cli.py 299-301 and 499-501, gui_workers.py 111-113: if not success: return
FlowDiscoverFailed ==
    /\ fl_pc = "discovering"
    /\ d_pc = "returned"
    /\ d_result = "False"
    /\ fl_pc' = "ended"
    /\ UNCHANGED <<outsideFlow, rangeVars, discoverVars, flow>>

\* the discovery returned True: the GUI worker goes on to build its
\* downloader (gui_workers.py 116), the CLI flows to download_manga (cli.py
\* 304 and 504)
FlowDiscoverOk ==
    /\ fl_pc = "discovering"
    /\ d_pc = "returned"
    /\ d_result = "True"
    /\ fl_pc' = IF flow = "gui" THEN "construct" ELSE "download_manga"
    /\ UNCHANGED <<outsideFlow, rangeVars, discoverVars, flow>>

\* main.py 236-237: the loop of the quick flow calls scrape_chapter_pages on
\* the next chapter
QuickScrapeCall ==
    /\ fl_pc = "loop"
    /\ \A k \in Selected : d_state[k] # "running"
    /\ \E c \in Selected :
           /\ d_state[c] = "none"
           /\ \A j \in 1..(c - 1) : d_state[j] # "none"
           /\ d_state' = [d_state EXCEPT ![c] = "running"]
    /\ UNCHANGED <<outsideFlow, rangeVars, frontVars, d_n, d_workers, d_pc,
                   d_collected, d_failed, d_successful, d_result>>

\* main.py 237-239: the call returns; False only prints a warning and the
\* loop goes on
QuickScrapeReturn(r) ==
    /\ fl_pc = "loop"
    /\ \E c \in Selected :
           /\ d_state[c] = "running"
           /\ d_state' = [d_state EXCEPT ![c] = r]
    /\ UNCHANGED <<outsideFlow, rangeVars, frontVars, d_n, d_workers, d_pc,
                   d_collected, d_failed, d_successful, d_result>>

\* QuickDownload reached from inside the loop
QuickDownloadEarly ==
    /\ fl_pc = "loop"
    /\ fl_pc' = "download_manga"
    /\ UNCHANGED <<outsideFlow, rangeVars, discoverVars, flow>>

\* main.py 236, 243: the loop is over, download_manga is called
QuickDownload ==
    /\ fl_pc = "loop"
    /\ \A c \in Selected : d_state[c] \in DiscoverOutcomes
    /\ fl_pc' = "download_manga"
    /\ UNCHANGED <<outsideFlow, rangeVars, discoverVars, flow>>

NextFlow ==
    \/ \E f \in Flows : \E n \in 1..MaxChapters : FlowStart(f, n)
    \/ FlowConstruct
    \/ \E w \in 1..MaxWorkers : FlowDiscover(w)
    \/ DiscoverPoolStep
    \/ FlowDiscoverFailed
    \/ FlowDiscoverOk
    \/ QuickScrapeCall
    \/ \E r \in {"True", "False"} : QuickScrapeReturn(r)
    \/ QuickDownload

SpecFlow == InitDiscover /\ [][NextFlow]_vars


\* ---- download_chapter_range ----

\* the chapter lists of a Manga: numbers in thousandths, kept in ascending
\* order by add_chapter (models.py 82-86) and by the scraper (scraper.py 257)
RangeSeries ==
    {s \in UNION {[1..n -> ParsedNumbers] : n \in 0..MaxChapters} :
         \A i, j \in DOMAIN s : i < j => s[i] <= s[j]}

\* get_chapters_in_range leaving out the chapter whose number is end
get_chapters_in_rangeExclusive(keys, start, end) ==
    SelectSeq(keys, LAMBDA k : start <= k /\ k < end)

\* models.py lines 88-90: [ch for ch in self.chapters
\*                          if start <= ch.number <= end]
get_chapters_in_range(keys, start, end) ==
    SelectSeq(keys, LAMBDA k : start <= k /\ k <= end)

\* downloader.py line 262: the call
download_chapter_range(keys, start, end) ==
    /\ rg_pc = "idle"
    /\ rg_keys' = keys
    /\ rg_start' = start
    /\ rg_end' = end
    /\ rg_selected' = <<>>
    /\ rg_result' = "none"
    /\ rg_pc' = "filter"
    /\ UNCHANGED <<outsideFlow, discoverVars, frontVars>>

\* downloader.py lines 277-281: no chapter in the range: return False
RangeEmpty ==
    /\ rg_pc = "filter"
    /\ get_chapters_in_range(rg_keys, rg_start, rg_end) = <<>>
    /\ rg_result' = "False"
    /\ rg_pc' = "returned"
    /\ UNCHANGED <<outsideFlow, discoverVars, frontVars, rg_keys, rg_start,
                   rg_end, rg_selected>>

\* downloader.py lines 277, 285-297: temp_manga gets the chapters of the
\* range and download_manga is called on it
RangeDelegate ==
    /\ rg_pc = "filter"
    /\ get_chapters_in_range(rg_keys, rg_start, rg_end) # <<>>
    /\ rg_selected' = get_chapters_in_range(rg_keys, rg_start, rg_end)
    /\ rg_pc' = "download_manga"
    /\ UNCHANGED <<outsideFlow, discoverVars, frontVars, rg_keys, rg_start,
                   rg_end, rg_result>>

\* downloader.py line 297: what download_manga returns is returned
RangeReturn(r) ==
    /\ rg_pc = "download_manga"
    /\ rg_result' = r
    /\ rg_pc' = "returned"
    /\ UNCHANGED <<outsideFlow, discoverVars, frontVars, rg_keys, rg_start,
                   rg_end, rg_selected>>

NextRange ==
    \/ \E keys \in RangeSeries : \E start, end \in ParsedNumbers :
           download_chapter_range(keys, start, end)
    \/ RangeEmpty
    \/ RangeDelegate
    \/ \E r \in {"True", "False"} : RangeReturn(r)

SpecRange == InitDiscover /\ [][NextRange]_vars

\* ======================= claims =======================

AllPagesDownloaded(c) == \A p \in PagesOf(c) : page_downloaded[c][p]
Returned(c) == chState[c] \in {"retT", "retF"}

\* C1: when download_manga has returned, it returned True if and only if the
\* task of every chapter of the series returned True without raising.
C1_SeriesResult ==
    pc = "done" =>
        (result = "True" <=> \A c \in ChapterSet : chState[c] = "retT")

\* a run of two chapters where one returned True, the other failed, and
\* download_manga returned False
C1_Witness ==
    /\ pc = "done"
    /\ result = "False"
    /\ Len(chapters) = 2
    /\ \E c, d \in ChapterSet : chState[c] = "retT" /\ chState[d] # "retT"

\* C2 as stated: for every chapter whose _download_chapter returned, the
\* returned boolean and chapter.downloaded are True if and only if every page
\* of the chapter has page.downloaded = True.
C2_Original ==
    \A c \in ChapterSet :
        Returned(c) =>
            /\ chState[c] = "retT" <=> AllPagesDownloaded(c)
            /\ chapter_downloaded[c] <=> AllPagesDownloaded(c)

\* C2 amended: the same, for every chapter with a non-empty page list (a
\* chapter without pages returns False although none of its pages failed).
C2_ChapterOutcome ==
    \A c \in ChapterSet :
        (Returned(c) /\ NumPages(c) > 0) =>
            /\ chState[c] = "retT" <=> AllPagesDownloaded(c)
            /\ chapter_downloaded[c] <=> AllPagesDownloaded(c)

\* a chapter of two pages, one downloaded and one failed, that returned False
C2_Witness ==
    \E c \in ChapterSet :
        /\ chState[c] = "retF"
        /\ NumPages(c) = 2
        /\ \E p, q \in PagesOf(c) :
              /\ pgState[c][p] = "collected" /\ page_downloaded[c][p]
              /\ pgState[c][q] = "collected" /\ ~page_downloaded[c][q]
        /\ ~chapter_downloaded[c]

\* C3 as stated: in every state (get_download_stats reads the progress fields
\* in whatever state the other threads left them) and in every snapshot handed
\* to an observer, downloaded_files <= total_files; on every run of an instance.
C3_Original ==
    /\ downloaded_files <= total_files
    /\ observed.downloaded <= observed.total

RECURSIVE PagesAttempted(_)
PagesAttempted(n) ==
    IF n = 0 THEN 0
    ELSE PagesAttempted(n - 1) + (IF chState[n] = "raised" THEN 0 ELSE chapters[n])

C5_Original ==
    [][(pc = "return" /\ pc' = "done") =>
          /\ status' = (IF \A c \in ChapterSet : chState[c] = "retT"
                        THEN "completed" ELSE "error")
          /\ (status' = "completed") <=> (result' = "True")]_vars

\* C6 as stated (its safety half): at the step where download_manga returns,
\* the status is 'completed' or 'error', whatever controls other threads
\* called during the run.
C6_Original ==
    [][(pc = "return" /\ pc' = "done") =>
          status' \in {"completed", "error"}]_vars

\* C6, its liveness half: under fair scheduling every run of download_manga
\* that has started returns, whatever controls are called meanwhile.
C6_Terminates == (pc \notin {"idle", "done"}) ~> (pc = "done")

\* C7: download_manga does not set the final status, notify or return before
\* every chapter task has settled, and _download_chapter does not reach its
\* exit before every fetch of its chapter has settled and been recorded.
C7_FanInJoin ==
    /\ pc \in {"notify", "return", "done"} =>
          \A c \in ChapterSet : chState[c] \in Settled
    /\ \A c \in ChapterSet :
          chState[c] \in {"notify", "retT", "retF"} =>
              \A p \in PagesOf(c) : pgState[c][p] = "collected"

\* the final status was set to 'error' after a chapter failed, and the other
\* chapter of the series has returned True with both its pages recorded
C7_Witness ==
    /\ pc = "notify"
    /\ ~success
    /\ \E c, d \in ChapterSet :
          /\ chState[c] \in {"retF", "raised"}
          /\ chState[d] = "retT"
          /\ NumPages(d) = 2

C9_BoundedConcurrency ==
    /\ \A c \in ChapterSet :
          /\ Cardinality(RunningFetches(c)) <= max_workers
          /\ Cardinality(RunningFetches(c)) <= NumPages(c)
    /\ Cardinality(RunningChapters) <= max_workers

\* both pools are saturated: a chapter waits in the queue while max_workers
\* chapters are acquired, and a fetch waits while max_workers fetches of its
\* chapter run
C9_Witness ==
    /\ queue # <<>>
    /\ Cardinality(RunningChapters) = max_workers
    /\ \E c \in ChapterSet :
          /\ Cardinality(RunningFetches(c)) = max_workers
          /\ \E p \in PagesOf(c) : pgState[c][p] = "queued"

\* C10: a fetch whose every attempt ended with a transport error made exactly
\* max_retries attempts, slept 1, 2, 4, ... (2^k after attempt k) between
\* consecutive attempts and not after the last one, and returned False.
C10_RetrySchedule ==
    (f_pc = "done" /\ \A i \in DOMAIN f_log : f_log[i] = "transport") =>
        /\ Len(f_log) = f_max_retries
        /\ f_result = "False"
        /\ Len(f_sleeps) = (IF f_max_retries = 0 THEN 0 ELSE f_max_retries - 1)
        /\ \A i \in DOMAIN f_sleeps : f_sleeps[i] = 2 ^ (i - 1)
        /\ \A i \in DOMAIN f_sleeps : i > 1 => f_sleeps[i] > f_sleeps[i - 1]

\* a fetch with max_retries = 3 has failed three times with a transport error
C10_Witness ==
    /\ f_pc = "done"
    /\ f_max_retries = 3
    /\ f_log = <<"transport", "transport", "transport">>
    /\ f_sleeps = <<1, 2>>
    /\ f_result = "False"

\* C11: an attempt of download_file that ends with a local error (no
\* RequestException) is the last one: no attempt follows it, no wait follows it
\* (the only waits are those after the transport errors that preceded it), and
\* the call returns False.
C11_LocalErrorAbandons ==
    \A i \in DOMAIN f_log :
        f_log[i] = "local" =>
            /\ i = Len(f_log)
            /\ f_pc \in {"exhausted", "done"}
            /\ f_attempt = i - 1
            /\ Len(f_sleeps) = i - 1
            /\ f_pc = "done" => f_result = "False"

\* a fetch with max_retries = 3 returned False after a transport error, one
\* wait and a local error in its second attempt
C11_Witness ==
    /\ f_pc = "done"
    /\ f_max_retries = 3
    /\ f_log = <<"transport", "local">>
    /\ f_sleeps = <<1>>
    /\ f_result = "False"

\* C12: download_file never leaves by an exception: whatever transport and
\* local errors its attempts meet, a call in flight can always go on, and it
\* ends by returning a boolean, which is True only if the last attempt
\* transferred and verified the file, and False for every failure.
C12_NeverRaises ==
    /\ f_pc \in {"idle", "attempt", "backoff", "verify", "exhausted", "done"}
    /\ f_pc \notin {"idle", "done"} => ENABLED NextFetch
    /\ f_pc = "done" =>
          /\ f_result \in {"True", "False"}
          /\ f_result = "True" <=> (f_log # <<>> /\ f_log[Len(f_log)] = "ok")

\* a fetch whose first attempt met a local error has returned False
C12_Witness ==
    /\ f_pc = "done"
    /\ f_url = "u"
    /\ f_log = <<"local">>
    /\ f_result = "False"

\* C13 as stated: a call of download_file with the empty url ends with an
\* outcome that differs from the False of an ordinary failed download.
C13_Original ==
    (f_pc = "done" /\ f_url = "") => f_result # "False"

\* C14 as stated: in a call of download_manga on a series without chapters, no
\* step of the caller changes a field of the progress state, and the call does
\* not return True (the run is rejected).
C14_Original ==
    [][(Len(chapters') = 0 /\ pc' # pc) =>
          /\ UNCHANGED progressVars
          /\ result' # "True"]_vars

\* C15: the task of a chapter without pages, when a worker thread takes it,
\* returns False at once: it changes no field of the progress state, creates no
\* page pool, submits and starts no fetch; and a call of download_manga on a
\* series with such a chapter returns False.
C15_EmptyChapterFails ==
    [][/\ \A c \in ChapterSet :
             (NumPages(c) = 0 /\ chState[c] = "queued" /\ chState'[c] # "queued") =>
                 /\ chState'[c] = "retF"
                 /\ UNCHANGED progressVars
                 /\ UNCHANGED <<pgState, submits, page_downloaded,
                                chapter_downloaded>>
       /\ (pc' = "done" /\ \E c \in 1..Len(chapters') : chapters'[c] = 0) =>
             result' = "False"]_vars

\* a run over a chapter without pages and a chapter of two pages has returned
\* False: the first task returned False, the second downloaded both its pages
C15_Witness ==
    /\ pc = "done"
    /\ result = "False"
    /\ \E c, d \in ChapterSet :
          /\ NumPages(c) = 0 /\ chState[c] = "retF"
          /\ NumPages(d) = 2 /\ chState[d] = "retT"
    /\ downloaded_files = 2

\* C16 as stated: the progress fields are written and read under one lock, so
\* no state that a reader can see combines the total of the run that is
\* starting with the count left by the run before, and no observer is invoked
\* while download_manga is in the middle of the writes that start a run (lines
\* 154-156).
C16_Original ==
    /\ [](~(pc = "reset" /\ downloaded_files # 0))
    /\ [][observed' # observed => pc \notin {"reset", "status"}]_vars

\* C17 as stated: every step that changes a field of the progress state hands
\* the observer the progress as it is after the step.
C17_Original ==
    [][progressVars' # progressVars =>
          observed' = [total |-> total_files', downloaded |-> downloaded_files',
                       status |-> status']]_vars

\* C19 as stated: no fetch is started while the cancellation signal is raised.
C19_Original ==
    [][stop_event =>
          \A c \in ChapterSet : \A p \in PagesOf(c) :
              pgState[c][p] = "queued" => pgState'[c][p] # "running"]_vars

\* C18: a notification whose observers raise never leaves _notify_progress by
\* an exception, and holds the lock while it loops; at the step where it
\* returns the lock is released, every registered observer has been invoked
\* once, in registration order, the raising ones included, one error has been
\* logged per raising observer, and the progress fields and the result of the
\* run are as they were.
C18_ObserverIsolation ==
    [][/\ n_pc' \in {"idle", "loop", "returned"}
       /\ n_pc' = "loop" => lock' = "held"
       /\ (n_pc = "loop" /\ n_pc' # "loop") =>
             /\ n_pc' = "returned"
             /\ lock' = "free"
             /\ n_invoked' = [i \in DOMAIN progress_callbacks |-> i]
             /\ n_errors' = Cardinality({i \in DOMAIN progress_callbacks :
                                            progress_callbacks[i] = "raises"})
             /\ UNCHANGED <<progressVars, result, progress_callbacks>>]_vars

\* a notification of three observers has returned; the first raised, and the
\* two registered after it were invoked
C18_Witness ==
    /\ n_pc = "returned"
    /\ progress_callbacks = <<"raises", "ok", "ok">>
    /\ n_invoked = <<1, 2, 3>>
    /\ n_errors = 1
    /\ lock = "free"

\* C20 as stated: chapters of a scraped list with distinct numbers get distinct
\* chapter directories.
C20_Original ==
    sc_pc = "named" =>
        \A i, j \in DOMAIN sc_numbers :
            sc_numbers[i] # sc_numbers[j] => folders[i] # folders[j]

\* C21 as stated: whatever runs of scrape_chapter_pages filled the page list of
\* a chapter, the file paths _download_chapter gives to its pages are pairwise
\* distinct.
C21_Original ==
    p_pc = "assigned" =>
        \A i, j \in DOMAIN file_paths :
            i # j => file_paths[i] # file_paths[j]

\* the ordinal-to-url mapping and the target filenames of a page list
PageMapping(pages) == {<<pages[i].page_number, pages[i].url>> : i \in DOMAIN pages}
PageFilenames(pages) == {pages[i].filename : i \in DOMAIN pages}

\* C27: after scrape_chapter_pages has run twice or more on a chapter whose
\* remote page did not change, the pages of the chapter give each ordinal one
\* url, and their ordinal-to-url mapping and their set of filenames are those
\* one run on a new chapter produces.
C27_IdempotentDiscovery ==
    scrapes >= 2 =>
        /\ \A i, j \in DOMAIN ch_pages :
              ch_pages[i].page_number = ch_pages[j].page_number
                  => ch_pages[i].url = ch_pages[j].url
        /\ PageMapping(ch_pages) = PageMapping(AddPages(<<>>, remote_images, 1))
        /\ PageFilenames(ch_pages)
              = PageFilenames(AddPages(<<>>, remote_images, 1))

\* discovery ran twice on a chapter of two images: the page list holds four
\* pages, numbered 1, 2, 1, 2
C27_Witness ==
    /\ scrapes = 2
    /\ remote_images = <<1, 2>>
    /\ Len(ch_pages) = 4
    /\ ch_pages[3].page_number = 1 /\ ch_pages[4].page_number = 2
    /\ sp_result = "True"

\* C28 as stated: every page of a chapter is written at base directory /
\* sanitized title / chapter folder name / filename, whether the base
\* directory was given to download_manga or derived by it.
C28_Original ==
    p_pc = "assigned" =>
        \A i \in DOMAIN file_paths :
            /\ Len(file_paths[i]) = 4
            /\ file_paths[i][1] \in {"base", "cwd/downloads"}
            /\ file_paths[i][2] = SanitizedTitle(title)
            /\ file_paths[i][3] = chapter_folder_name(ch_number)
            /\ file_paths[i][4] = Filename(ch_pages[i].page_number)

\* tasks a pool holds: submitted and not yet finished
PendingChapters == {c \in ChapterSet : chState[c] \in {"queued"} \cup InChapter}
PendingFetches(c) == {p \in PagesOf(c) : pgState[c][p] \in {"queued", "running"}}

\* C22 as stated: the chapter pool never holds more submitted and unfinished
\* tasks than max_workers, and the page pool of a chapter never more than its
\* width.
C22_Original ==
    /\ Cardinality(PendingChapters) <= max_workers
    /\ \A c \in ChapterSet : Cardinality(PendingFetches(c)) <= PoolWidth(c)

\* C23: no step lowers downloaded_files, except the reset of line 155 with
\* which a run begins: not a step of a chapter task or a fetch, not a
\* notification, not a control.
C23_CountMonotone ==
    [][~(pc = "reset" /\ pc' = "status") =>
          downloaded_files' >= downloaded_files]_vars

\* in a second run on one instance, after stop_download, a chapter with a
\* failed page has finished and the counter stands at the two pages recorded
C23_Witness ==
    /\ runs = 2
    /\ pc = "join"
    /\ stop_event
    /\ status = "idle"
    /\ downloaded_files = 2
    /\ \E c \in ChapterSet : chState[c] = "retF" /\ NumPages(c) = 2

\* C24: total_files is always the sum of the page counts of the chapters of
\* the last run started; it changes only at the step that starts a run (line
\* 154), and at that step no chapter task exists yet.
C24_TotalWrittenOnce ==
    [][/\ total_files' = SumSeq(chapters')
       /\ total_files' # total_files => (pc \in {"idle", "done"} /\ pc' = "reset")
       /\ pc' = "reset" => \A c \in Chapters : chState'[c] = "none"]_vars

\* the second run of an instance is in flight with a total of 3 that differs
\* from the count, a chapter task being at work
C24_Witness ==
    /\ runs = 2
    /\ pc = "join"
    /\ total_files = 3
    /\ downloaded_files = 1
    /\ \E c \in ChapterSet : chState[c] = "join"

\* C25: at the step where a chapter task leaves the loop over its fetches,
\* chapter.downloaded becomes the chapter-level boolean and current_chapter
\* and current_file become null; at the step where it returns, chapter.downloaded
\* is the returned boolean, and both fields are null unless another chapter is
\* being acquired; both are null once download_manga has left its own loop.
C25_ClearedOnExit ==
    [][/\ \A c \in ChapterSet :
             (chState[c] = "join" /\ chState'[c] # "join") =>
                 /\ chapter_downloaded'[c] = chapter_success[c]
                 /\ current_chapter' = 0
                 /\ current_file' = 0
       /\ \A c \in ChapterSet :
             (chState[c] = "notify" /\ chState'[c] # "notify") =>
                 /\ chapter_downloaded'[c] = (chState'[c] = "retT")
                 /\ (\A d \in ChapterSet : chState[d] \notin {"submit", "join"})
                       => (current_chapter' = 0 /\ current_file' = 0)
       /\ pc' \in {"notify", "return", "done"} =>
             (current_chapter' = 0 /\ current_file' = 0)]_vars

\* download_manga has returned from a run of two chapters with pages, one
\* downloaded and one not, and both fields are null
C25_Witness ==
    /\ pc = "done"
    /\ max_workers = 2
    /\ \E c, d \in ChapterSet :
          /\ chState[c] = "retT" /\ chapter_downloaded[c] /\ NumPages(c) = 2
          /\ chState[d] = "retF" /\ ~chapter_downloaded[d] /\ NumPages(d) = 2
    /\ current_chapter = 0
    /\ current_file = 0

\* C26 as stated: while a run is in flight and past its first writes (lines
\* 154-156), no step lowers downloaded_files to 0 and no step sets the status
\* to 'idle'.
C26_Original ==
    [][pc \notin {"idle", "done", "reset", "status"} =>
          /\ downloaded_files' = 0 => downloaded_files = 0
          /\ status' = "idle" => status = "idle"]_vars

\* C26 amended: downloaded_files is lowered only by the reset of line 155,
\* with which a run begins; the status becomes 'idle' only by stop_download
\* (which raises the signal and leaves the run and the counters alone),
\* whether a run is in flight or not.
C26_ResetOnlyAtStart ==
    [][/\ downloaded_files' < downloaded_files =>
             (pc = "reset" /\ pc' = "status" /\ downloaded_files' = 0)
       /\ (status' = "idle" /\ status # "idle") =>
             /\ stop_event'
             /\ UNCHANGED <<pc, total_files, downloaded_files, chState>>]_vars

\* stop_download was called while the second run was collecting its fetches:
\* the status is 'idle' and the counter still stands at 1
C26_Witness ==
    /\ runs = 2
    /\ pc = "join"
    /\ status = "idle"
    /\ stop_event
    /\ observed = [total |-> 2, downloaded |-> 1, status |-> "idle"]
    /\ downloaded_files = 1
    /\ \E c \in ChapterSet : chState[c] = "join"

\* C29 as stated: at the step where download_manga returns from a run in which
\* the directory of a chapter could not be created, it returns False (it does
\* not raise), the status is 'error', the other chapters were acquired to the
\* end, and chapter.downloaded of the failed chapter is False.
C29_Original ==
    [][(pc = "return" /\ pc' = "done"
            /\ \E c \in ChapterSet : chState[c] = "raised") =>
          /\ result' = "False"
          /\ status' = "error"
          /\ \A c \in ChapterSet :
                /\ chState[c] = "raised" => ~chapter_downloaded'[c]
                /\ chState[c] # "raised" =>
                      /\ Returned(c)
                      /\ \A p \in PagesOf(c) : pgState[c][p] = "collected"]_vars

\* a step of a control: the caller, the chapter tasks and the fetches stay
\* where they are, and the status, the signal or what the observer saw changes
IsControlStep ==
    /\ UNCHANGED <<pc, runs, joined, queue, chState, pgState>>
    /\ <<status, stop_event, observed>>' # <<status, stop_event, observed>>

\* C30: a step of a control leaves the status and the signal as 'paused' and
\* raised, 'downloading' and cleared, or 'idle' and raised; the observer is
\* handed the progress as it is after the step; total_files, downloaded_files,
\* current_chapter, current_file and every page and chapter outcome are
\* unchanged.
C30_ControlsFrame ==
    [][IsControlStep =>
          /\ <<status', stop_event'>> \in {<<"paused", TRUE>>,
                                           <<"downloading", FALSE>>,
                                           <<"idle", TRUE>>}
          /\ observed' = [total |-> total_files', downloaded |-> downloaded_files',
                          status |-> status']
          /\ UNCHANGED <<total_files, downloaded_files, current_chapter,
                         current_file, page_downloaded, chapter_downloaded,
                         chapter_success, success, result, submits,
                         max_workers>>]_vars

\* stop_download was called after a chapter had been downloaded: the
\* outcomes and the counters stand, the observer saw them with status 'idle'
C30_Witness ==
    /\ status = "idle"
    /\ stop_event
    /\ pc = "join"
    /\ \E c \in ChapterSet :
          /\ chState[c] = "retT"
          /\ chapter_downloaded[c]
          /\ NumPages(c) = 2
    /\ downloaded_files = 2
    /\ observed = [total |-> total_files, downloaded |-> 2, status |-> "idle"]
    /\ total_files = 4

\* a chapter task has been taken from the queue by a worker thread
Started(c) == chState[c] \notin {"none", "queued"}

\* C31: chapter tasks are submitted and started in the order of manga.chapters:
\* the queue holds the waiting chapters in list order, and a chapter is
\* started only when every chapter before it in the list has been started, so
\* with max_workers = w the first w to start are the first w of the list.
C31_SubmissionOrder ==
    /\ \A i, j \in DOMAIN queue : i < j => queue[i] < queue[j]
    /\ \A c, d \in ChapterSet : (c < d /\ Started(d)) => Started(c)
    /\ \A c, d \in ChapterSet : (c < d /\ chState[d] = "queued") => chState[c] # "none"

\* with max_workers = 2 the second chapter of the list has returned while the
\* first, started before it, is still being acquired
C31_Witness ==
    /\ max_workers = 2
    /\ Len(chapters) = 2
    /\ chState[1] = "join"
    /\ chState[2] = "retT"
    /\ NumPages(2) = 2

\* C35: an attempt of download_file that transfers without error and leaves a
\* missing or empty file is the last one: the call is over with False, and no
\* attempt and no wait follow it (the only waits are those after the transport
\* errors that preceded it).
C35_EmptyFileAbandons ==
    \A i \in DOMAIN f_log :
        f_log[i] = "empty" =>
            /\ i = Len(f_log)
            /\ f_pc = "done"
            /\ f_result = "False"
            /\ f_attempt = i - 1
            /\ Len(f_sleeps) = i - 1

\* a fetch with max_retries = 3 returned False after its first attempt, which
\* wrote an empty file
C35_Witness ==
    /\ f_pc = "done"
    /\ f_max_retries = 3
    /\ f_log = <<"empty">>
    /\ f_file = "empty"
    /\ f_sleeps = <<>>
    /\ f_result = "False"

\* C36 as stated: the task of every chapter with a non-empty page list hands
\* the observer the progress at the step where it ends, and the notification
\* with which a run ends carries the status 'completed' or 'error' and a
\* count equal to the total.
C36_Original ==
    [][/\ \A c \in ChapterSet :
             (NumPages(c) > 0 /\ chState[c] \notin Settled
                  /\ chState'[c] \in Settled) =>
                 observed' = [total |-> total_files',
                              downloaded |-> downloaded_files',
                              status |-> status']
       /\ (pc = "notify" /\ pc' = "return") =>
             /\ observed'.status \in {"completed", "error"}
             /\ observed'.downloaded = observed'.total]_vars

\* chapter tasks between line 216 (current_chapter set) and line 255
InFlight == {c \in ChapterSet : chState[c] \in {"submit", "join"}}

\* C38 as stated: while a chapter task is between setting current_chapter and
\* its exit, current_chapter names such a chapter, and current_file, if not
\* null, names a page of such a chapter.
C38_Original ==
    InFlight # {} =>
        /\ current_chapter \in InFlight
        /\ current_file # 0 => \E c \in InFlight : current_file \in PagesOf(c)

\* C39 as stated: the cancellation signal is raised only while the status is
\* 'paused' or 'idle'.
C39_Original ==
    stop_event => status \in {"paused", "idle"}

\* a step of the thread that runs _notify_progress
DispatchStep == CallbackReturns \/ CallbackRaises \/ CallbackRelocks \/ NotifyExit

\* C37 as stated: observer dispatch cannot deadlock: whenever the lock is held
\* by a dispatch, that dispatch can take a step (the observer it is calling
\* returns or raises, or the loop ends and the lock is released), whatever
\* lock-taking operation the observer calls.
C37_Original ==
    lock = "held" => ENABLED DispatchStep

\* C32: discovery precedes acquisition.  A front end calls download_manga
\* (inside which every page fetch begins) only when no discovery of a
\* selected chapter is waiting or running, and the CLI flows and the GUI
\* worker do not call it when the discovery of a selected chapter returned
\* False or raised.
C32_DiscoveryFirst ==
    /\ fl_pc = "download_manga" =>
           \A c \in Selected : d_state[c] \in DiscoverOutcomes
    /\ (/\ flow \in {"cli", "cli_args", "gui"}
        /\ \E c \in Selected : d_state[c] \in {"False", "raised"}) =>
           fl_pc # "download_manga"

\* the quick flow has called download_manga after its loop discovered both
\* chapters, the first without success
C32_Witness ==
    /\ flow = "quick"
    /\ fl_pc = "download_manga"
    /\ d_n = 2
    /\ d_state[1] = "False"
    /\ d_state[2] = "True"

\* C33: when scrape_selected_chapters has returned, it returned True if and
\* only if the list was not empty and every task returned True; for an empty
\* list it returned False and no task was submitted; for any other list every
\* chapter's task has run to its end, whatever the other tasks did.
C33_DiscoveryResult ==
    /\ d_n = 0 => \A c \in Chapters : d_state[c] = "none"
    /\ d_pc = "returned" =>
        /\ d_result \in {"True", "False"}
        /\ d_result = "True" <=>
               (d_n > 0 /\ \A c \in Selected : d_state[c] = "True")
        /\ d_n = 0 => d_result = "False"
        /\ \A c \in Selected : d_state[c] \in DiscoverOutcomes

\* a discovery of two chapters returned False: the first task raised, and
\* the second was still run and returned True
C33_Witness ==
    /\ d_pc = "returned"
    /\ d_n = 2
    /\ d_state[1] = "raised"
    /\ d_state[2] = "True"
    /\ d_result = "False"

\* positions of manga.chapters whose number lies in [start, end]
InRangeIdx ==
    {i \in DOMAIN rg_keys : rg_start <= rg_keys[i] /\ rg_keys[i] <= rg_end}

\* the j-th position of InRangeIdx, in list order
NthInRange(j) ==
    CHOOSE i \in InRangeIdx : Cardinality({k \in InRangeIdx : k <= i}) = j

\* C34: download_chapter_range returns without calling download_manga exactly
\* when no chapter number lies in [start, end]; it then returns False and
\* leaves the progress, the observers' view and every fetch as they were.
\* Otherwise download_manga is called on exactly the chapters whose number
\* lies in [start, end], in the order of manga.chapters, and its result is
\* returned.
C34_RangeResult ==
    /\ [](rg_pc = "download_manga" =>
            /\ Len(rg_selected) = Cardinality(InRangeIdx)
            /\ Len(rg_selected) > 0
            /\ \A j \in DOMAIN rg_selected :
                   rg_selected[j] = rg_keys[NthInRange(j)])
    /\ [][/\ (rg_pc = "filter" /\ rg_pc' = "returned") =>
                 /\ InRangeIdx = {}
                 /\ rg_result' = "False"
                 /\ UNCHANGED <<mainVars, fetchVars, notifyVars>>
          /\ (rg_pc = "filter" /\ rg_pc' = "download_manga") =>
                 InRangeIdx # {}
          /\ (rg_pc = "download_manga" /\ rg_pc' = "returned") =>
                 rg_result' \in {"True", "False"}]_vars

\* a range between the numbers of the two chapters of the series: the call
\* returned False
C34_Witness ==
    /\ rg_pc = "returned"
    /\ rg_keys = <<500, 2000>>
    /\ rg_start = 1000
    /\ rg_end = 1500
    /\ rg_result = "False"
    /\ rg_selected = <<>>

====
